---- MODULE Spec2Model ----
(***************************************************************************)
(* A model of entomb: batch entombing / un-entombing of the files of a     *)
(* tree (processing.py), the data (checksum record) files kept for each    *)
(* entombed file under <directory>/.entomb/data/<filename>/, the action    *)
(* log under <directory>/.entomb/logs/, and the consistency check of a     *)
(* tree (checking.py).                                                     *)
(*                                                                         *)
(* The tree is a directory "r" holding the names "a" and "b" and the       *)
(* subdirectory "s", which holds the name "c".  Each name is a regular     *)
(* file, a symbolic link, or absent.                                       *)
(*                                                                         *)
(* processing.py and checking.py read constants.DATA_DIRECTORY_NAME and    *)
(* constants.DATA_FILES_PER_FILE; constants.py sets these two values under *)
(* the names HASHES_DIRECTORY_NAME and HASH_FILES_PER_FILE (lines 20-21).  *)
(* The model reads the two names as the same constants.                    *)
(***************************************************************************)
EXTENDS Integers, Sequences, FiniteSets, TLC

VARIABLES
    fs,       \* the file system: the tree, its flags, its .entomb directories
    clock,    \* the current time, in seconds
    pc,       \* "idle", "process" (process_objects walking), "check" (check_files walking)
    run,      \* the local variables of process_objects
    chk       \* the local variables of check_files

vars == <<fs, clock, pc, run, chk>>

\* ------------------------------------------------------------------ bounds

MaxClock == 4      \* the runs of the program and the changes made to the tree
                   \* from outside it, each at its own second

\* --------------------------------------------------------------- constants

DATA_FILES_PER_FILE == 3

ADDED == "ADDED"
REMOVED == "REMOVED"

READ_ONLY == "444"      \* the mode os.chmod(path, 0o444) sets
DEFAULT_MODE == "644"   \* the mode open(path, "w") creates a file with

None == <<>>            \* checksum_time=None (falsy, as the empty string is)

\* ---------------------------------------------------------------- the tree

Dirs == {"r", "s"}
Names == {"a", "b", "c"}
Contents == {"hello", "jello", "hi"}

\* os.path.split(path)[0]: the directory a name lives in.
DirOf(f) == IF f = "c" THEN "s" ELSE "r"

\* The paths of what entomb keeps for a directory d and for a name n:
\* <d>/.entomb, <d>/.entomb/data, <d>/.entomb/logs and the log file in it,
\* <dir>/.entomb/data/<n> and the data file <n>.data.<k> in it.
EntombDirectory(d) == IF d = "r" THEN "r/.entomb" ELSE "s/.entomb"
DataDirectory(d) == IF d = "r" THEN "r/.entomb/data" ELSE "s/.entomb/data"
LogsDirectory(d) == IF d = "r" THEN "r/.entomb/logs" ELSE "s/.entomb/logs"
LogFilePath(d) ==
    IF d = "r" THEN "r/.entomb/logs/log" ELSE "s/.entomb/logs/log"
DataSubdirectory(n) ==
    CASE n = "a" -> "r/.entomb/data/a"
      [] n = "b" -> "r/.entomb/data/b"
      [] n = "c" -> "s/.entomb/data/c"
DataFilePath(n, k) ==
    CASE n = "a" -> <<"r/.entomb/data/a/a.data.1", "r/.entomb/data/a/a.data.2",
                      "r/.entomb/data/a/a.data.3">>[k]
      [] n = "b" -> <<"r/.entomb/data/b/b.data.1", "r/.entomb/data/b/b.data.2",
                      "r/.entomb/data/b/b.data.3">>[k]
      [] n = "c" -> <<"s/.entomb/data/c/c.data.1", "s/.entomb/data/c/c.data.2",
                      "s/.entomb/data/c/c.data.3">>[k]

\* The paths other than the names, in alphabetical order.
OtherPaths ==
    <<"r", "r/.entomb", "r/.entomb/data", "r/.entomb/data/a",
      "r/.entomb/data/a/a.data.1", "r/.entomb/data/a/a.data.2",
      "r/.entomb/data/a/a.data.3", "r/.entomb/data/b",
      "r/.entomb/data/b/b.data.1", "r/.entomb/data/b/b.data.2",
      "r/.entomb/data/b/b.data.3", "r/.entomb/logs", "r/.entomb/logs/log",
      "s", "s/.entomb", "s/.entomb/data", "s/.entomb/data/c",
      "s/.entomb/data/c/c.data.1", "s/.entomb/data/c/c.data.2",
      "s/.entomb/data/c/c.data.3", "s/.entomb/logs", "s/.entomb/logs/log">>

\* Alphabetical order of the names, and of the other paths after them.
Ord(f) ==
    CASE f = "a" -> 1 [] f = "b" -> 2 [] f = "c" -> 3
      [] OTHER -> 3 + (CHOOSE i \in DOMAIN OtherPaths : OtherPaths[i] = f)

\* sorted(S) for a set of names.
RECURSIVE Sorted(_)
Sorted(S) ==
    IF S = {} THEN <<>>
    ELSE LET m == CHOOSE x \in S : \A y \in S : Ord(x) <= Ord(y)
         IN <<m>> \o Sorted(S \ {m})

\* statinfo.st_size of a file with the given bytes.
Size(c) == CASE c = "hello" -> 5 [] c = "jello" -> 5 [] c = "hi" -> 2

\* A faulty os.path.islink test: no path is taken for a link.
IsLinkNever(f, path) == FALSE

\* os.path.isdir / os.path.exists / os.path.islink / os.path.isfile.
IsDir(path) == path \in Dirs
Exists(f, path) == path \in Dirs \/ (path \in Names /\ f.kind[path] # "none")
IsLink(f, path) == path \in Names /\ f.kind[path] = "link"
IsFile(f, path) == path \in Names /\ f.kind[path] = "file"

\* The filenames os.walk lists in a directory: the regular files and links
\* of a directory of the tree, the data files of a data subdirectory, the log
\* file of a logs directory.
Filenames(f, d) ==
    {n \in Names : DirOf(n) = d /\ f.kind[n] # "none"}
    \cup UNION {{DataFilePath(n, k) : k \in DOMAIN f.recs[n]} :
                    n \in {m \in Names : f.sub[m] /\ DataSubdirectory(m) = d}}
    \cup {LogFilePath(e) :
              e \in {x \in Dirs : LogsDirectory(x) = d /\ f.log[x] # <<>>}}

\* The dirnames os.walk gives with a directory: its subdirectories.
Dirnames(f, d) ==
    (IF d = "r" THEN {"s"} ELSE {})
    \cup {EntombDirectory(e) : e \in {x \in Dirs : x = d /\ f.entomb[x]}}
    \cup {DataDirectory(e) :
              e \in {x \in Dirs : EntombDirectory(x) = d /\ f.data[x]}}
    \cup {LogsDirectory(e) :
              e \in {x \in Dirs : EntombDirectory(x) = d /\ f.logs[x]}}
    \cup {DataSubdirectory(n) :
              n \in {m \in Names : DataDirectory(DirOf(m)) = d /\ f.sub[m]}}

\* os.listdir(<d>/.entomb/data): the data subdirectories of a directory.
DataSubdirectories(f, d) == {n \in Names : DirOf(n) = d /\ f.sub[n]}

\* os.listdir(<dir>/.entomb/data/<n>): the data files of a name, by suffix.
DataFiles(f, n) == DOMAIN f.recs[n]

\* ------------------------------------------------------------ utilities.py

\* datetime.strftime(constants.DATETIME_FORMAT) of a time in UTC.
strftime(t) == <<"+0000", t>>

\* A faulty _get_checksum: the file is never read into the hash, so the digest
\* is that of no bytes.
_get_checksum_unread(f, path) == <<"sha512", "">>

\* "sha512-<hexdigest>" of the file's bytes; distinct bytes give distinct
\* digests.
_get_checksum(f, path) == <<"sha512", f.content[path]>>

\* A faulty build_data_file_contents: the checksum time given is not used.
build_data_file_contents_now(f, path, checksum_time, now) ==
    [json          |-> TRUE,
     file          |-> path,
     file_mtime    |-> strftime(f.mtime[path]),
     file_size     |-> Size(f.content[path]),
     checksum      |-> _get_checksum(f, path),
     checksum_time |-> strftime(now)]

\* The JSON text json.dumps(data, indent=4) gives for the five fields; the
\* field "json" tells the text of a data file that parses from text that
\* does not.
build_data_file_contents(f, path, checksum_time, now) ==
    [json          |-> TRUE,
     file          |-> path,
     file_mtime    |-> strftime(f.mtime[path]),
     file_size     |-> Size(f.content[path]),
     checksum      |-> _get_checksum(f, path),
     checksum_time |-> IF checksum_time = None THEN strftime(now)
                       ELSE checksum_time]

\* A faulty file_is_immutable: the test of the flag is the wrong way round.
file_is_immutable_inverted(f, path) == ~f.flag[path]

\* utilities.file_is_immutable of a file of the tree.
file_is_immutable(f, path) == f.flag[path]

\* A faulty exclusion: .entomb stays among the dirnames.
ExcludeNothing(dirnames) == dirnames

\* dirnames[:] = [d for d in dirnames if d != ENTOMB_DIRECTORY_NAME]
ExcludeEntombDirectories(dirnames) ==
    {p \in dirnames : \A d \in Dirs : p # EntombDirectory(d)}

\* The directories os.walk visits, top-down and in alphabetical order, when
\* the dirnames are pruned as utilities.file_paths and check_files prune
\* them: a directory, then what is below each of the dirnames left.
RECURSIVE Walk(_, _)
Walk(f, stack) ==
    IF stack = <<>> THEN <<>>
    ELSE LET root_dir == Head(stack)
             dirnames == ExcludeEntombDirectories(Dirnames(f, root_dir))
         IN <<root_dir>> \o Walk(f, Sorted(dirnames) \o Tail(stack))

WalkDirs(f, path) == Walk(f, <<path>>)

\* utilities.file_paths: the files and links below the path, directory by
\* directory, alphabetically; a path that is no directory is yielded itself.
\* What is below .entomb is not walked.
RECURSIVE WalkFiles(_, _)
WalkFiles(f, dirs) ==
    IF dirs = <<>> THEN <<>>
    ELSE Sorted(Filenames(f, Head(dirs))) \o WalkFiles(f, Tail(dirs))

file_paths(f, path) ==
    IF ~IsDir(path) THEN <<path>> ELSE WalkFiles(f, WalkDirs(f, path))

count_file_paths(f, path) == Len(file_paths(f, path))

\* ----------------------------------------------------------- processing.py

\* _set_attribute("+i" / "-i", path) on a file of the tree.
_set_attribute(f, attribute, path) == [f EXCEPT !.flag[path] = attribute]

\* _set_attribute on the data file with the given suffix.
SetDataFileAttribute(f, attribute, path, k) ==
    [f EXCEPT !.recs[path][k].immutable = attribute]

\* A faulty _get_data_file_paths: the suffixes are range(DATA_FILES_PER_FILE).
_get_data_file_paths_from_zero(path) ==
    [i \in 1..DATA_FILES_PER_FILE |-> i - 1]

\* The suffixes of the data file names "<filename>.data.<suffix>".
_get_data_file_paths(path) == [i \in 1..DATA_FILES_PER_FILE |-> i]

\* os.makedirs(<dir>/.entomb/data/<filename>, exist_ok=True)
MakeDataSubdirectory(f, path) ==
    [f EXCEPT !.entomb[DirOf(path)] = TRUE,
              !.data[DirOf(path)] = TRUE,
              !.sub[path] = TRUE]

\* open(data_file_path, "w"), write, flush, fsync.
WriteDataFile(f, path, k, contents) ==
    [f EXCEPT !.recs[path] =
        (k :> [contents  |-> contents,
               mode      |-> IF k \in DOMAIN @ THEN @[k].mode ELSE DEFAULT_MODE,
               immutable |-> IF k \in DOMAIN @ THEN @[k].immutable ELSE FALSE])
        @@ @]

\* A faulty os.chmod step: the mode is left as it is.
ChmodDataFileSkipped(f, path, k, mode) == f

\* os.chmod(data_file_path, 0o444)
ChmodDataFile(f, path, k, mode) == [f EXCEPT !.recs[path][k].mode = mode]

\* A faulty loop of _create_data_files: each data file is made immutable
\* before it is made read-only.
RECURSIVE CreateSomeDataFilesImmutableFirst(_, _, _, _, _)
CreateSomeDataFilesImmutableFirst(f, path, paths, contents, steps) ==
    IF paths = <<>> \/ steps = 0 THEN f
    ELSE LET k == Head(paths)
             written == WriteDataFile(f, path, k, contents)
             immutable == SetDataFileAttribute(written, TRUE, path, k)
             readonly == ChmodDataFile(immutable, path, k, READ_ONLY)
         IN IF steps = 1 THEN written
            ELSE IF steps = 2 THEN immutable
            ELSE CreateSomeDataFilesImmutableFirst(readonly, path, Tail(paths),
                                                   contents, steps - 3)

\* The loop of _create_data_files, cut after the given number of its steps:
\* each data file in turn is written (one step), made read-only (one step)
\* and made immutable (one step).
RECURSIVE CreateSomeDataFiles(_, _, _, _, _)
CreateSomeDataFiles(f, path, paths, contents, steps) ==
    IF paths = <<>> \/ steps = 0 THEN f
    ELSE LET k == Head(paths)
             written == WriteDataFile(f, path, k, contents)
             readonly == ChmodDataFile(written, path, k, READ_ONLY)
             immutable == SetDataFileAttribute(readonly, TRUE, path, k)
         IN IF steps = 1 THEN written
            ELSE IF steps = 2 THEN readonly
            ELSE CreateSomeDataFiles(immutable, path, Tail(paths), contents,
                                     steps - 3)

\* The whole loop of _create_data_files.
CreateEachDataFile(f, path, paths, contents) ==
    CreateSomeDataFiles(f, path, paths, contents, 3 * Len(paths))

\* The steps of _create_data_files: os.makedirs, then three for each data
\* file.
CreateDataFilesSteps == 1 + 3 * DATA_FILES_PER_FILE

\* The file system _create_data_files leaves when it is cut after the given
\* number of its steps.
CreateDataFilesUpTo(f, path, now, steps) ==
    LET made == MakeDataSubdirectory(f, path)
        existing_files == DataFiles(made, path)
        data_file_contents == build_data_file_contents(made, path, None, now)
    IN IF steps = 0 THEN f
       ELSE IF existing_files # {} THEN made
       ELSE CreateSomeDataFiles(made, path, _get_data_file_paths(path),
                                data_file_contents, steps - 1)

\* A faulty _create_data_files: the data subdirectory is not listed before
\* the data files are written.
_create_data_files_overwriting(f, path, now) ==
    LET made == MakeDataSubdirectory(f, path)
        data_file_contents == build_data_file_contents(made, path, None, now)
    IN [fs |-> CreateEachDataFile(made, path, _get_data_file_paths(path),
                                  data_file_contents),
        raised |-> "none"]

_create_data_files(f, path, now) ==
    LET made == MakeDataSubdirectory(f, path)
        existing_files == DataFiles(made, path)
        data_file_contents == build_data_file_contents(made, path, None, now)
    IN IF existing_files # {}
       THEN [fs |-> made, raised |-> "Exception"]
       ELSE [fs |-> CreateEachDataFile(made, path, _get_data_file_paths(path),
                                       data_file_contents),
             raised |-> "none"]

\* A faulty clean up: .entomb/data is never removed.
DeleteDataDirectoryKept(f, d) == f

\* A faulty _delete_directory_if_empty on <d>/.entomb/data: shutil.rmtree in
\* place of os.rmdir, so the data subdirectories left in it go with it.
DeleteDataDirectoryWhole(f, d) ==
    [f EXCEPT !.data[d] = FALSE,
              !.sub = [n \in Names |-> IF DirOf(n) = d THEN FALSE ELSE @[n]],
              !.recs = [n \in Names |-> IF DirOf(n) = d THEN <<>> ELSE @[n]]]

\* _delete_directory_if_empty on <d>/.entomb/data and on <d>/.entomb: os.rmdir
\* removes the directory only when nothing is left in it.
DeleteDataDirectoryIfEmpty(f, d) ==
    IF DataSubdirectories(f, d) = {} THEN [f EXCEPT !.data[d] = FALSE] ELSE f

\* A faulty _delete_directory_if_empty on <d>/.entomb: shutil.rmtree in place
\* of os.rmdir, so the directory goes with everything that is in it.
DeleteEntombDirectoryWhole(f, d) ==
    [f EXCEPT !.entomb[d] = FALSE,
              !.data[d] = FALSE,
              !.logs[d] = FALSE,
              !.log[d] = <<>>,
              !.sub = [n \in Names |-> IF DirOf(n) = d THEN FALSE ELSE @[n]],
              !.recs = [n \in Names |-> IF DirOf(n) = d THEN <<>> ELSE @[n]]]

DeleteEntombDirectoryIfEmpty(f, d) ==
    IF ~f.data[d] /\ ~f.logs[d] THEN [f EXCEPT !.entomb[d] = FALSE] ELSE f

\* The steps of _delete_data_directory when the data subdirectory is there:
\* a chattr -i for each data file, then shutil.rmtree, which unlinks each
\* data file and removes the data subdirectory, then the two calls of
\* _delete_directory_if_empty.
DeleteDataDirectorySteps(f, path) == 2 * Cardinality(DataFiles(f, path)) + 3

\* The file system _delete_data_directory leaves when it is cut after the
\* given number of its steps.  The data files are listed by suffix.
DeleteDataDirectoryUpTo(f, path, steps) ==
    LET d == DirOf(path)
        files == DataFiles(f, path)
        m == Cardinality(files)
        First(j) == {k \in files : Cardinality({h \in files : h < k}) < j}
        Mutable(j) ==
            [f EXCEPT !.recs[path] =
                [k \in DOMAIN @ |->
                    IF k \in First(j) THEN [@[k] EXCEPT !.immutable = FALSE]
                    ELSE @[k]]]
        Unlinked(j) ==
            [Mutable(m) EXCEPT !.recs[path] =
                [k \in DOMAIN @ \ First(j) |-> @[k]]]
        removed == [Unlinked(m) EXCEPT !.recs[path] = <<>>, !.sub[path] = FALSE]
        data_deleted == DeleteDataDirectoryIfEmpty(removed, d)
    IN IF steps <= m THEN Mutable(steps)
       ELSE IF steps <= 2 * m THEN Unlinked(steps - m)
       ELSE IF steps = 2 * m + 1 THEN removed
       ELSE IF steps = 2 * m + 2 THEN data_deleted
       ELSE DeleteEntombDirectoryIfEmpty(data_deleted, d)

\* _delete_data_directory: os.walk of a data subdirectory that is not there
\* yields nothing, and shutil.rmtree of it raises.
_delete_data_directory(f, path) ==
    IF ~f.sub[path]
    THEN [fs |-> f, raised |-> "FileNotFoundError"]
    ELSE [fs |-> DeleteDataDirectoryUpTo(f, path,
                                         DeleteDataDirectorySteps(f, path)),
          raised |-> "none"]

\* A faulty _write_to_log: every entry is written as an ADDED one.
_write_to_log_added(f, action, path, now) ==
    LET d == DirOf(path)
    IN [f EXCEPT !.entomb[d] = TRUE,
                 !.logs[d] = TRUE,
                 !.log[d] = Append(@, <<strftime(now), ADDED, path>>)]

\* _write_to_log: the entry "<timestamp> | <action> | <filename>" is appended
\* to the day's log file in <dir>/.entomb/logs, which is made if need be.
_write_to_log(f, action, path, now) ==
    LET d == DirOf(path)
    IN [f EXCEPT !.entomb[d] = TRUE,
                 !.logs[d] = TRUE,
                 !.log[d] = Append(@, <<strftime(now), action, path>>)]

\* A faulty _check_data_files: nothing is looked at.
_check_data_files_skipped(f, path, is_immutable, now) == "none"

\* _check_data_files: what it raises, "none" when it returns.
_check_data_files(f, path, is_immutable, now) ==
    LET data_file_paths == _get_data_file_paths(path)
        Missing(k) == k \notin DataFiles(f, path)
        Unparsed(k) == ~f.recs[path][k].contents.json
        Differs(k) ==
            f.recs[path][k].contents #
                build_data_file_contents(
                    f, path, f.recs[path][k].contents.checksum_time, now)
        Bad(k) == Missing(k) \/ Unparsed(k) \/ Differs(k)
    IN IF is_immutable
       THEN IF \A i \in DOMAIN data_file_paths : ~Bad(data_file_paths[i])
            THEN "none"
            ELSE LET i == CHOOSE j \in DOMAIN data_file_paths :
                              /\ Bad(data_file_paths[j])
                              /\ \A h \in 1..(j - 1) : ~Bad(data_file_paths[h])
                     k == data_file_paths[i]
                 IN IF Missing(k) THEN "FileNotFoundError"
                    ELSE IF Unparsed(k) THEN "JSONDecodeError"
                    ELSE "Exception"
       ELSE IF f.sub[path] THEN "Exception" ELSE "none"

\* The commands that may exit non-zero during one call of _process_object:
\* none, the lsattr on the file, the chattr on the file, or the chattr on
\* the first, second or third data file the call comes to.
Faults == {"none", "lsattr", "chattr", "chattr1", "chattr2", "chattr3"}

FaultyDataFile(fault) ==
    CASE fault = "chattr1" -> 1
      [] fault = "chattr2" -> 2
      [] fault = "chattr3" -> 3
      [] OTHER -> 0

\* Lines 424-433 of _process_object: the file is entombed or un-entombed.
\* The result is the file system left and the exception raised ("none" when
\* none is).  A chattr that exits non-zero raises SetAttributeError where it
\* stands: what was done before it stays done.
EntombOrUnentomb(f, path, immutable, now, fault) ==
    LET k == FaultyDataFile(fault)
        flagged == _set_attribute(f, immutable, path)
    IN IF fault = "chattr" THEN [fs |-> f, raised |-> "SetAttributeError"]
       ELSE IF immutable
       THEN LET created == _create_data_files(flagged, path, now)
            IN IF created.raised # "none" THEN created
               ELSE IF k > 0
               THEN [fs |-> CreateDataFilesUpTo(flagged, path, now,
                                                1 + 3 * (k - 1) + 2),
                     raised |-> "SetAttributeError"]
               ELSE [fs |-> _write_to_log(created.fs, ADDED, path, now),
                     raised |-> "none"]
       ELSE LET deleted == _delete_data_directory(flagged, path)
            IN IF deleted.raised # "none" THEN deleted
               ELSE IF k > 0 /\ k <= Cardinality(DataFiles(f, path))
               THEN [fs |-> DeleteDataDirectoryUpTo(flagged, path, k - 1),
                     raised |-> "SetAttributeError"]
               ELSE [fs |-> _write_to_log(deleted.fs, REMOVED, path, now),
                     raised |-> "none"]

\* The steps of lines 424-433: the chattr on the file, the steps of
\* _create_data_files or _delete_data_directory, and _write_to_log.
ChangeSteps(f, path, immutable) ==
    IF immutable THEN CreateDataFilesSteps + 2
    ELSE DeleteDataDirectorySteps(f, path) + 2

\* Faulty lines 424-433: the attribute of the file is changed after the data
\* files are dealt with, not before.
ChangeUpToFlagLast(f, path, immutable, now, steps) ==
    LET last == ChangeSteps(f, path, immutable)
        before == IF immutable
                  THEN CreateDataFilesUpTo(f, path, now, steps)
                  ELSE DeleteDataDirectoryUpTo(f, path, steps)
    IN IF steps = 0 THEN f
       ELSE IF steps = last
       THEN EntombOrUnentomb(f, path, immutable, now, "none").fs
       ELSE IF steps = last - 1 THEN _set_attribute(before, immutable, path)
       ELSE before

\* Faulty lines 424-433: the log entry is written right after the attribute
\* of the file is changed, before the data files are dealt with.
ChangeUpToLogFirst(f, path, immutable, now, steps) ==
    LET flagged == _set_attribute(f, immutable, path)
        logged == _write_to_log(flagged, IF immutable THEN ADDED ELSE REMOVED,
                                path, now)
    IN IF steps = 0 THEN f
       ELSE IF steps = 1 THEN flagged
       ELSE IF steps = ChangeSteps(f, path, immutable)
       THEN EntombOrUnentomb(f, path, immutable, now, "none").fs
       ELSE IF immutable
       THEN CreateDataFilesUpTo(logged, path, now, steps - 2)
       ELSE DeleteDataDirectoryUpTo(logged, path, steps - 2)

\* The file system lines 424-433 leave when the program is stopped after
\* the given number of these steps.
ChangeUpTo(f, path, immutable, now, steps) ==
    LET flagged == _set_attribute(f, immutable, path)
    IN IF steps = 0 THEN f
       ELSE IF steps = ChangeSteps(f, path, immutable)
       THEN EntombOrUnentomb(f, path, immutable, now, "none").fs
       ELSE IF immutable
       THEN CreateDataFilesUpTo(flagged, path, now, steps - 1)
       ELSE DeleteDataDirectoryUpTo(flagged, path, steps - 1)

\* A faulty _process_object: dry_run is not looked at.
_process_object_wet(f, path, immutable, dry_run, now, fault) ==
    LET is_immutable == file_is_immutable(f, path)
        checked == _check_data_files(f, path, is_immutable, now)
        change_attribute == immutable # is_immutable
        changed == EntombOrUnentomb(f, path, immutable, now, fault)
    IN IF checked # "none" \/ ~change_attribute
       THEN [fs |-> f, raised |-> checked, value |-> change_attribute]
       ELSE [fs |-> changed.fs, raised |-> changed.raised,
             value |-> change_attribute]

\* A faulty _process_object: the GetAttributeError of file_is_immutable is
\* not caught and raised again as SetAttributeError.
_process_object_unwrapped(f, path, immutable, dry_run, now, fault) ==
    LET is_immutable == file_is_immutable(f, path)
        checked == _check_data_files(f, path, is_immutable, now)
        change_attribute == immutable # is_immutable
        changed == EntombOrUnentomb(f, path, immutable, now, fault)
        Result(g, raised) ==
            [fs |-> g, raised |-> raised, value |-> change_attribute]
    IN IF fault = "lsattr" THEN Result(f, "GetAttributeError")
       ELSE IF checked # "none" THEN Result(f, checked)
       ELSE IF change_attribute /\ ~dry_run
       THEN Result(changed.fs, changed.raised)
       ELSE Result(f, "none")

\* A faulty _process_object: the attribute is changed whether or not the
\* file has it already.
_process_object_always(f, path, immutable, dry_run, now, fault) ==
    LET is_immutable == file_is_immutable(f, path)
        checked == _check_data_files(f, path, is_immutable, now)
        change_attribute == TRUE
        changed == EntombOrUnentomb(f, path, immutable, now, fault)
        Result(g, raised) ==
            [fs |-> g, raised |-> raised, value |-> change_attribute]
    IN IF fault = "lsattr" THEN Result(f, "SetAttributeError")
       ELSE IF checked # "none" THEN Result(f, checked)
       ELSE IF change_attribute /\ ~dry_run
       THEN Result(changed.fs, changed.raised)
       ELSE Result(f, "none")

\* _process_object: the file system it leaves, the exception it raises
\* ("none" when it returns) and the value it returns.  fault names the
\* command that exits non-zero during the call: "none", "lsattr" or "chattr".
_process_object(f, path, immutable, dry_run, now, fault) ==
    LET is_immutable == file_is_immutable(f, path)
        checked == _check_data_files(f, path, is_immutable, now)
        change_attribute == immutable # is_immutable
        changed == EntombOrUnentomb(f, path, immutable, now, fault)
        Result(g, raised) ==
            [fs |-> g, raised |-> raised, value |-> change_attribute]
    IN IF fault = "lsattr" THEN Result(f, "SetAttributeError")
       ELSE IF checked # "none" THEN Result(f, checked)
       ELSE IF change_attribute /\ ~dry_run
       THEN Result(changed.fs, changed.raised)
       ELSE Result(f, "none")

\* -------------------------------------------------------------- the state

\* The tree before anything was entombed: every file is mutable and no
\* directory holds .entomb.  "b" is a regular file or a link.
InitialTrees ==
    {[kind    |-> [n \in Names |-> IF n = "b" THEN kb ELSE "file"],
      flag    |-> [n \in Names |-> FALSE],
      content |-> [n \in Names |-> "hello"],
      mtime   |-> [n \in Names |-> 0],
      entomb  |-> [d \in Dirs |-> FALSE],
      data    |-> [d \in Dirs |-> FALSE],
      logs    |-> [d \in Dirs |-> FALSE],
      log     |-> [d \in Dirs |-> <<>>],
      sub     |-> [n \in Names |-> FALSE],
      recs    |-> [n \in Names |-> <<>>]] : kb \in {"file", "link"}}

\* process_objects before it is first called.  call names the function that
\* was called and at the time of a call of a function other than
\* process_objects.
NoRun ==
    [call |-> "process_objects", at |-> 0,
     path |-> "r", immutable |-> FALSE, dry_run |-> FALSE, todo |-> <<>>,
     file_path |-> "", steps |-> 0,
     attribute_changed_count |-> 0, attribute_settable_count |-> 0,
     errors |-> <<>>, file_count |-> 0, link_count |-> 0,
     total_file_paths |-> 0, status |-> "none"]

\* check_files before it is first called.
NoCheck ==
    [path |-> "r", dirs |-> <<>>, root_dir |-> "r", filenames |-> {},
     file_path |-> "",
     data_directory_subdirectories |-> {},
     directory_count |-> 0, entombed_file_count |-> 0, errors |-> <<>>,
     files_with_errors_count |-> 0, inaccessible_file_count |-> 0,
     link_count |-> 0, unentombed_file_count |-> 0, status |-> "none"]

Init ==
    /\ fs \in InitialTrees
    /\ clock = 0
    /\ pc = "idle"
    /\ run = NoRun
    /\ chk = NoCheck

\* The paths the commands are given.
ProcessPaths == {"r", "s", "a"}
CheckPaths == {"r", "s", "a"}

\* ------------------------------------------------------- process_objects

\* process_objects up to the walk: the set up and the count of file paths.
StartProcess(path, immutable, dry_run) ==
    /\ pc = "idle"
    /\ clock < MaxClock
    /\ Exists(fs, path)
    /\ clock' = clock + 1
    /\ pc' = "process"
    /\ run' = [NoRun EXCEPT !.path = path,
                            !.immutable = immutable,
                            !.dry_run = dry_run,
                            !.todo = file_paths(fs, path),
                            !.total_file_paths = count_file_paths(fs, path),
                            !.status = "walking"]
    /\ UNCHANGED <<fs, chk>>

\* One turn of the loop of process_objects, on the next file path.  An
\* exception other than SetAttributeError is not caught: it ends the
\* program.  A command that exits non-zero takes its second.
ProcessStep(fault) ==
    /\ pc = "process"
    /\ run.todo # <<>>
    /\ fault # "none" => clock < MaxClock /\ ~IsLink(fs, Head(run.todo))
    /\ clock' = IF fault = "none" THEN clock ELSE clock + 1
    /\ LET file_path == Head(run.todo)
           rest == [run EXCEPT !.todo = Tail(@), !.file_path = file_path]
           done == _process_object(fs, file_path, run.immutable, run.dry_run,
                                   clock, fault)
       IN IF IsLink(fs, file_path)
          THEN /\ run' = [rest EXCEPT !.link_count = @ + 1]
               /\ UNCHANGED <<fs, pc>>
          ELSE /\ fs' = done.fs
               /\ IF done.raised = "none"
                  THEN /\ run' = [rest EXCEPT
                               !.attribute_settable_count = @ + 1,
                               !.attribute_changed_count =
                                   IF done.value THEN @ + 1 ELSE @,
                               !.file_count = @ + 1]
                       /\ pc' = pc
                  ELSE IF done.raised = "SetAttributeError"
                  THEN /\ run' = [rest EXCEPT
                               !.errors = Append(@, <<done.raised, file_path>>),
                               !.file_count = @ + 1]
                       /\ pc' = pc
                  ELSE /\ run' = [run EXCEPT !.file_path = file_path,
                                              !.status = done.raised]
                       /\ pc' = "idle"
    /\ UNCHANGED chk

\* process_objects after the walk: the changes, the summary and the errors
\* are printed.
FinishProcess ==
    /\ pc = "process"
    /\ run.todo = <<>>
    /\ pc' = "idle"
    /\ run' = [run EXCEPT !.status = "done"]
    /\ UNCHANGED <<fs, clock, chk>>

\* The program is stopped (killed, or ended by an exception of a system
\* call) within lines 424-433 of the turn of the loop on the next file path,
\* after the given number of steps of these lines.  Time passes before the
\* program is run again.
ProcessKilled(steps) ==
    /\ pc = "process"
    /\ clock < MaxClock
    /\ run.todo # <<>>
    /\ LET file_path == Head(run.todo)
           is_immutable == file_is_immutable(fs, file_path)
       IN /\ ~IsLink(fs, file_path)
          /\ _check_data_files(fs, file_path, is_immutable, clock) = "none"
          /\ run.immutable # is_immutable
          /\ ~run.dry_run
          /\ steps <= ChangeSteps(fs, file_path, run.immutable)
          /\ fs' = ChangeUpTo(fs, file_path, run.immutable, clock, steps)
          /\ run' = [run EXCEPT !.file_path = file_path,
                                !.steps = steps,
                                !.status = "killed"]
    /\ pc' = "idle"
    /\ clock' = clock + 1
    /\ UNCHANGED chk

\* _create_data_files or _delete_data_directory is called for a regular file
\* by itself, outside process_objects.
CallCreate(path) ==
    /\ pc = "idle"
    /\ clock < MaxClock
    /\ IsFile(fs, path)
    /\ LET created == _create_data_files(fs, path, clock + 1)
       IN /\ fs' = created.fs
          /\ run' = [NoRun EXCEPT
                         !.call = "_create_data_files",
                         !.at = clock + 1,
                         !.path = path,
                         !.file_path = path,
                         !.status = IF created.raised = "none" THEN "returned"
                                    ELSE created.raised]
    /\ clock' = clock + 1
    /\ UNCHANGED <<pc, chk>>

CallDelete(path) ==
    /\ pc = "idle"
    /\ clock < MaxClock
    /\ IsFile(fs, path)
    /\ LET deleted == _delete_data_directory(fs, path)
       IN /\ fs' = deleted.fs
          /\ run' = [NoRun EXCEPT
                         !.call = "_delete_data_directory",
                         !.at = clock + 1,
                         !.path = path,
                         !.file_path = path,
                         !.status = IF deleted.raised = "none" THEN "returned"
                                    ELSE deleted.raised]
    /\ clock' = clock + 1
    /\ UNCHANGED <<pc, chk>>

\* ------------------------------------------------------------- checking.py

\* The error messages of check_files, each paired with the path it names
\* ("" when the message names none).
NO_CORRESPONDING_FILE == "has no corresponding file."
SHOULD_BE_IMMUTABLE == "should be immutable but isn't."
NO_DATA_SUBDIRECTORY == "is immutable but doesn't have a data subdirectory."
DATA_FILE_NOT_IMMUTABLE == "TODO: data file not immutable."
DATA_FILE_NOT_READ_ONLY == "TODO: data file not read-only."
DATA_FILE_MISMATCH == "TODO: Data file doesn't match actual file."

\* The first loop of _get_data_subdirectory_errors, over the data files
\* os.listdir finds.
RECURSIVE DataFilePermissionErrors(_, _, _)
DataFilePermissionErrors(f, file_path, ks) ==
    IF ks = {} THEN <<>>
    ELSE LET k == CHOOSE x \in ks : \A y \in ks : x <= y
             is_immutable == f.recs[file_path][k].immutable
             is_read_only == f.recs[file_path][k].mode = READ_ONLY
         IN (IF ~is_immutable
             THEN << <<DATA_FILE_NOT_IMMUTABLE, file_path>> >> ELSE <<>>)
            \o (IF ~is_read_only
                THEN << <<DATA_FILE_NOT_READ_ONLY, file_path>> >> ELSE <<>>)
            \o DataFilePermissionErrors(f, file_path, ks \ {k})

\* checking._get_data_file_contents: the one text all data files hold, or the
\* exception raised when they hold none or more than one.
_get_data_file_contents(f, path) ==
    LET contents_list == {f.recs[path][k].contents : k \in DataFiles(f, path)}
        contents_count == Cardinality(contents_list)
    IN IF contents_count = 1
       THEN [raised |-> "none", contents |-> CHOOSE c \in contents_list : TRUE]
       ELSE [raised |-> "Exception", contents |-> None]

\* _get_data_subdirectory_errors: the errors it returns, or the exception it
\* raises.
_get_data_subdirectory_errors(f, file_path, now) ==
    LET errors == DataFilePermissionErrors(f, file_path, DataFiles(f, file_path))
        actual == _get_data_file_contents(f, file_path)
        actual_contents == actual.contents
        expected_contents ==
            build_data_file_contents(f, file_path,
                                     actual_contents.checksum_time, now)
    IN IF actual.raised # "none"
       THEN [raised |-> actual.raised, errors |-> errors]
       ELSE IF ~actual_contents.json
       THEN [raised |-> "JSONDecodeError", errors |-> errors]
       ELSE [raised |-> "none",
             errors |-> IF actual_contents # expected_contents
                        THEN Append(errors, <<DATA_FILE_MISMATCH, "">>)
                        ELSE errors]

\* check_files up to the walk.  A path that is no directory is not checked:
\* the function returns at once.
StartCheck(path) ==
    /\ pc = "idle"
    /\ clock < MaxClock
    /\ Exists(fs, path)
    /\ clock' = clock + 1
    /\ IF ~IsDir(path)
       THEN /\ pc' = "idle"
            /\ chk' = [NoCheck EXCEPT !.path = path, !.status = "returned"]
       ELSE /\ pc' = "check"
            /\ chk' = [NoCheck EXCEPT !.path = path,
                                      !.dirs = WalkDirs(fs, path),
                                      !.status = "walking"]
    /\ UNCHANGED <<fs, run>>

\* One turn of the os.walk loop of check_files, up to the loop over the
\* filenames: the data subdirectories are listed, the directory is counted
\* and the data subdirectories without a file are reported.
CheckDirectory ==
    /\ pc = "check"
    /\ chk.filenames = {}
    /\ chk.dirs # <<>>
    /\ LET root_dir == Head(chk.dirs)
           filenames == Filenames(fs, root_dir)
           data_directory_subdirectories ==
               IF fs.entomb[root_dir]
               THEN DataSubdirectories(fs, root_dir) ELSE {}
           data_subdirectories_without_files ==
               Sorted({x \in data_directory_subdirectories : x \notin filenames})
       IN IF fs.entomb[root_dir] /\ ~fs.data[root_dir]
          THEN \* os.listdir(data_directory) of a directory that is not there
               /\ chk' = [chk EXCEPT !.status = "FileNotFoundError"]
               /\ pc' = "idle"
          ELSE /\ chk' = [chk EXCEPT
                       !.dirs = Tail(@),
                       !.root_dir = root_dir,
                       !.filenames = filenames,
                       !.data_directory_subdirectories =
                           data_directory_subdirectories,
                       !.directory_count = @ + 1,
                       !.errors = @ \o
                           [i \in DOMAIN data_subdirectories_without_files |->
                               <<NO_CORRESPONDING_FILE,
                                 data_subdirectories_without_files[i]>>]]
               /\ pc' = pc
    /\ UNCHANGED <<fs, clock, run>>

\* One turn of the loop over the filenames of a directory.  os.walk lists
\* them in no particular order.
CheckFile(filename) ==
    /\ pc = "check"
    /\ filename \in chk.filenames
    /\ LET file_path == filename
           rest == [chk EXCEPT !.filenames = @ \ {filename},
                               !.file_path = file_path]
           has_data_subdirectory ==
               filename \in chk.data_directory_subdirectories
           is_immutable == file_is_immutable(fs, file_path)
           found == _get_data_subdirectory_errors(fs, file_path, clock)
       IN IF IsLink(fs, file_path)
          THEN /\ chk' = [rest EXCEPT !.link_count = @ + 1]
               /\ pc' = pc
          ELSE IF has_data_subdirectory /\ ~is_immutable
          THEN /\ chk' = [rest EXCEPT
                       !.errors = Append(@, <<SHOULD_BE_IMMUTABLE, file_path>>),
                       !.files_with_errors_count = @ + 1]
               /\ pc' = pc
          ELSE IF is_immutable /\ ~has_data_subdirectory
          THEN /\ chk' = [rest EXCEPT
                       !.errors = Append(@, <<NO_DATA_SUBDIRECTORY, file_path>>),
                       !.files_with_errors_count = @ + 1]
               /\ pc' = pc
          ELSE IF is_immutable /\ has_data_subdirectory
          THEN IF found.raised # "none"
               THEN /\ chk' = [chk EXCEPT !.file_path = file_path,
                                           !.status = found.raised]
                    /\ pc' = "idle"
               ELSE IF found.errors # <<>>
               THEN /\ chk' = [rest EXCEPT
                            !.errors = @ \o found.errors,
                            !.files_with_errors_count = @ + 1]
                    /\ pc' = pc
               ELSE /\ chk' = [rest EXCEPT !.entombed_file_count = @ + 1]
                    /\ pc' = pc
          ELSE /\ chk' = [rest EXCEPT !.unentombed_file_count = @ + 1]
               /\ pc' = pc
    /\ UNCHANGED <<fs, clock, run>>

\* The turn of the loop over the filenames in which the lsattr on the file
\* exits non-zero: utilities.file_is_immutable raises GetAttributeError,
\* which check_files does not catch, and the program ends.  The command
\* takes its second.
CheckFileUnreadable(filename) ==
    /\ pc = "check"
    /\ clock < MaxClock
    /\ filename \in chk.filenames
    /\ ~IsLink(fs, filename)
    /\ chk' = [chk EXCEPT !.file_path = filename,
                          !.status = "GetAttributeError"]
    /\ pc' = "idle"
    /\ clock' = clock + 1
    /\ UNCHANGED <<fs, run>>

\* A faulty end of check_files: when there are errors, a log file for them
\* is made in .entomb/logs of the path checked.
FinishCheckLogged ==
    /\ pc = "check"
    /\ chk.filenames = {}
    /\ chk.dirs = <<>>
    /\ pc' = "idle"
    /\ chk' = [chk EXCEPT !.status = "done"]
    /\ fs' = IF chk.errors = <<>> THEN fs
             ELSE [fs EXCEPT !.entomb[chk.path] = TRUE, !.logs[chk.path] = TRUE]
    /\ UNCHANGED <<clock, run>>

\* check_files after the walk: _print_full_report.
FinishCheck ==
    /\ pc = "check"
    /\ chk.filenames = {}
    /\ chk.dirs = <<>>
    /\ pc' = "idle"
    /\ chk' = [chk EXCEPT !.status = "done"]
    /\ UNCHANGED <<fs, clock, run>>

\* -------------------------------------------------------- specifications

Process ==
    \/ \E path \in ProcessPaths, immutable \in BOOLEAN, dry_run \in BOOLEAN :
           StartProcess(path, immutable, dry_run)
    \/ ProcessStep("none")
    \/ FinishProcess

Check ==
    \/ \E path \in CheckPaths : StartCheck(path)
    \/ CheckDirectory
    \/ \E filename \in Names : CheckFile(filename)
    \/ FinishCheck

\* The program alone: no command fails and nothing else touches the tree.
Next == Process \/ Check

Spec == Init /\ [][Next]_vars

\* The program when a command on a file may exit non-zero.
Fail == \E fault \in Faults \ {"none"} : ProcessStep(fault)

SpecFault == Init /\ [][Next \/ Fail]_vars

\* The program when it may be stopped in the middle of a change.
Kill == \E steps \in 0..(CreateDataFilesSteps + 2) : ProcessKilled(steps)

SpecCrash == Init /\ [][Next \/ Kill]_vars

\* The program when a command may exit non-zero and when it may be stopped
\* in the middle of a change.
SpecInterrupted == Init /\ [][Next \/ Kill \/ Fail]_vars

\* The program when the lsattr of a check may exit non-zero.
Unreadable == \E filename \in Names : CheckFileUnreadable(filename)

SpecUnreadable == Init /\ [][Next \/ Unreadable]_vars

\* The program, stopped within a change or not, and the two functions that
\* make and remove the data files called by themselves.
Create == \E path \in Names : CallCreate(path)

DeleteDataDirectory == \E path \in Names : CallDelete(path)

SpecStore == Init /\ [][Next \/ Kill \/ Create \/ DeleteDataDirectory]_vars

\* ------------------------------------------- changes made from outside

\* Whoever may clear the immutable attribute (root) can change the tree
\* behind the program's back, between two runs of it.
CanTamper == pc = "idle" /\ clock < MaxClock

\* The bytes of an entombed or mutable file are changed; the modification
\* time follows unless it is set back.
TamperContent(n, c, touch) ==
    /\ CanTamper
    /\ IsFile(fs, n)
    /\ c # fs.content[n]
    /\ fs' = [fs EXCEPT !.content[n] = c,
                        !.mtime[n] = IF touch THEN clock ELSE @]
    /\ clock' = clock + 1
    /\ UNCHANGED <<pc, run, chk>>

\* chattr +i / -i on a file of the tree, outside the program.
TamperFlag(n) ==
    /\ CanTamper
    /\ IsFile(fs, n)
    /\ fs' = [fs EXCEPT !.flag[n] = ~@]
    /\ clock' = clock + 1
    /\ UNCHANGED <<pc, run, chk>>

\* The texts one data file can be changed into: text that is no JSON, and
\* JSON with another checksum or another checksum time.
CorruptedContents(c) ==
    {[c EXCEPT !.json = FALSE],
     [c EXCEPT !.checksum = <<"sha512", "">>],
     [c EXCEPT !.checksum_time = strftime(0)]}

\* One data file is overwritten; its mode and attribute are put back.
CorruptDataFile(n, k, c) ==
    /\ CanTamper
    /\ k \in DataFiles(fs, n)
    /\ c \in CorruptedContents(fs.recs[n][k].contents)
    /\ fs' = [fs EXCEPT !.recs[n][k].contents = c]
    /\ clock' = clock + 1
    /\ UNCHANGED <<pc, run, chk>>

\* Some of the data files of a name are deleted.
DeleteDataFiles(n, ks) ==
    /\ CanTamper
    /\ ks # {}
    /\ ks \subseteq DataFiles(fs, n)
    /\ fs' = [fs EXCEPT !.recs[n] = [k \in DOMAIN @ \ ks |-> @[k]]]
    /\ clock' = clock + 1
    /\ UNCHANGED <<pc, run, chk>>

\* A file of the tree is deleted, or replaced by a symbolic link.
ReplaceFile(n, kind) ==
    /\ CanTamper
    /\ IsFile(fs, n)
    /\ kind \in {"none", "link"}
    /\ fs' = [fs EXCEPT !.kind[n] = kind, !.flag[n] = FALSE]
    /\ clock' = clock + 1
    /\ UNCHANGED <<pc, run, chk>>

ChangeContent ==
    \E n \in Names, c \in Contents, touch \in BOOLEAN : TamperContent(n, c, touch)

ChangeFlag == \E n \in Names : TamperFlag(n)

Corrupt ==
    \E n \in Names : \E k \in DataFiles(fs, n) :
        \E c \in CorruptedContents(fs.recs[n][k].contents) :
            CorruptDataFile(n, k, c)

Delete ==
    \E n \in Names : \E ks \in SUBSET DataFiles(fs, n) : DeleteDataFiles(n, ks)

Replace == \E n \in Names, kind \in {"none", "link"} : ReplaceFile(n, kind)

\* The program, and a tree that is changed from outside between its runs in
\* one of these ways.
SpecFlag == Init /\ [][Next \/ ChangeFlag]_vars
SpecContent == Init /\ [][Next \/ ChangeContent]_vars
SpecCorrupt == Init /\ [][Next \/ Corrupt]_vars
SpecDelete == Init /\ [][Next \/ Delete]_vars
SpecReplace == Init /\ [][Next \/ Replace]_vars

\* The program, and a tree in which flags and bytes are changed from outside.
SpecTampered == Init /\ [][Next \/ ChangeFlag \/ ChangeContent]_vars

\* ------------------------------------------------------------ the claims

\* A file is Free: a regular file, mutable, with no data subdirectory.
Free(f, n) == IsFile(f, n) /\ ~f.flag[n] /\ ~f.sub[n]

\* The data subdirectory of n is there and holds the data files 1..R and no
\* other; they are identical, each is read-only and immutable, and each
\* holds the text rebuilt from the file as it is with the checksum time the
\* text itself gives.
FullGroup(f, n) ==
    /\ f.sub[n]
    /\ DataFiles(f, n) = 1..DATA_FILES_PER_FILE
    /\ \A k \in DataFiles(f, n) :
        /\ f.recs[n][k].mode = READ_ONLY
        /\ f.recs[n][k].immutable
        /\ f.recs[n][k].contents = f.recs[n][1].contents
        /\ f.recs[n][k].contents.json
        /\ f.recs[n][k].contents =
               [json          |-> TRUE,
                file          |-> n,
                file_mtime    |-> <<"+0000", f.mtime[n]>>,
                file_size     |-> Size(f.content[n]),
                checksum      |-> <<"sha512", f.content[n]>>,
                checksum_time |-> f.recs[n][k].contents.checksum_time]

\* A file is Tombed: a regular file, immutable, with its full group.
Tombed(f, n) == IsFile(f, n) /\ f.flag[n] /\ FullGroup(f, n)

\* The action of the last log entry that names n, "" when none does.
LastAction(f, n) ==
    LET entries == f.log[DirOf(n)]
        named == {i \in DOMAIN entries : entries[i][3] = n}
    IN IF named = {} THEN ""
       ELSE entries[CHOOSE i \in named : \A j \in named : j <= i][2]

\* This step is the turn of the loop of process_objects on n.
Processes(n) ==
    pc = "process" /\ run.todo # <<>> /\ Head(run.todo) = n /\ run' # run

\* In this step _process_object returned, with this value.
Returned(value) ==
    /\ pc' = "process"
    /\ run'.errors = run.errors
    /\ run'.attribute_settable_count = run.attribute_settable_count + 1
    /\ run'.attribute_changed_count =
           run.attribute_changed_count + (IF value THEN 1 ELSE 0)

\* This step is the turn of the loop of check_files on n.
Checks(n) ==
    pc = "check" /\ n \in chk.filenames /\ chk' # chk /\ chk'.file_path = n

\* C1: starting from a tree of Free files, in every state a run of entomb,
\* unset, a dry run of either, or check can leave or pass through when no
\* command fails, a regular file is immutable if and only if its data
\* subdirectory exists and holds exactly the R = 3 data files, identical,
\* each read-only and immutable, and equal to the text rebuilt from the file
\* with the stored checksum time.
C1_FlagIffFullGroup ==
    \A n \in Names :
        IsFile(fs, n) => (fs.flag[n] <=> FullGroup(fs, n))

\* C1's case: after a finished unset, one file is entombed and another was
\* entombed and is Free again.
C1_Witness ==
    /\ pc = "idle"
    /\ run.status = "done"
    /\ \E n, m \in Names :
        /\ Tombed(fs, n)
        /\ Free(fs, m)
        /\ LastAction(fs, m) = REMOVED

\* This step un-entombs the Tombed file n.
Unentombs(n) ==
    /\ Processes(n)
    /\ ~run.immutable
    /\ ~run.dry_run
    /\ Tombed(fs, n)
    /\ Returned(TRUE)

\* C2 as claimed: un-entombing a file that was entombed from the Free state
\* restores that state: the file is mutable, it has no data subdirectory, and
\* when no other file of its directory has one, nothing the entombing made is
\* left in the directory, .entomb included.
C2_RoundTripLeavesNothing ==
    [][\A n \in Names :
          Unentombs(n) =>
              /\ Free(fs', n)
              /\ DataSubdirectories(fs', DirOf(n)) = {} =>
                     ~fs'.entomb[DirOf(n)]]_vars

\* C2 as amended: un-entombing a file that was entombed from the Free state
\* leaves the file mutable and without data subdirectory or data files, and
\* removes .entomb/data when no other data subdirectory is left in it; .entomb
\* itself stays, holding the logs directory, whose log gained the REMOVED
\* entry after the ADDED one.
C2_RoundTripLeavesLog ==
    [][\A n \in Names :
          Unentombs(n) =>
              /\ Free(fs', n)
              /\ fs'.recs[n] = <<>>
              /\ fs'.data[DirOf(n)] <=> DataSubdirectories(fs', DirOf(n)) # {}
              /\ fs'.entomb[DirOf(n)]
              /\ fs'.logs[DirOf(n)]
              /\ LastAction(fs, n) = ADDED
              /\ fs'.log[DirOf(n)] =
                     Append(fs.log[DirOf(n)], <<<<"+0000", clock>>, REMOVED, n>>)
              /\ \A m \in Names \ {n} :
                     /\ fs'.flag[m] = fs.flag[m]
                     /\ fs'.sub[m] = fs.sub[m]
                     /\ fs'.recs[m] = fs.recs[m]]_vars

\* C2's case: n was entombed and un-entombed, and its directory holds no data
\* subdirectory any more.
C2_Witness ==
    \E n \in Names :
        /\ run.file_path = n
        /\ ~run.immutable
        /\ run.attribute_changed_count > 0
        /\ Free(fs, n)
        /\ LastAction(fs, n) = REMOVED
        /\ DataSubdirectories(fs, DirOf(n)) = {}
        /\ \E i, j \in DOMAIN fs.log[DirOf(n)] :
               /\ i < j
               /\ fs.log[DirOf(n)][i][2] = ADDED
               /\ fs.log[DirOf(n)][i][3] = n
               /\ fs.log[DirOf(n)][j][2] = REMOVED
               /\ fs.log[DirOf(n)][j][3] = n

\* C3: when a Free regular file is entombed, it is immutable afterwards and
\* its data subdirectory holds exactly the data files numbered 1..3, each
\* with the one text built for the file at that time, each read-only and
\* immutable.
C3_EntombMakesGroup ==
    [][\A n \in Names :
          (/\ Processes(n)
           /\ run.immutable
           /\ ~run.dry_run
           /\ Free(fs, n)
           /\ Returned(TRUE)) =>
              /\ fs'.flag[n]
              /\ fs'.sub[n]
              /\ DOMAIN fs'.recs[n] = {1, 2, 3}
              /\ \A k \in {1, 2, 3} :
                     fs'.recs[n][k] =
                         [contents  |-> [json          |-> TRUE,
                                         file          |-> n,
                                         file_mtime    |-> <<"+0000", fs.mtime[n]>>,
                                         file_size     |-> Size(fs.content[n]),
                                         checksum      |-> <<"sha512", fs.content[n]>>,
                                         checksum_time |-> <<"+0000", clock>>],
                          mode      |-> "444",
                          immutable |-> TRUE]]_vars

\* C3's case: the file just processed was entombed in this run.
C3_Witness ==
    \E n \in Names :
        /\ pc = "process"
        /\ run.file_path = n
        /\ run.immutable
        /\ ~run.dry_run
        /\ run.attribute_changed_count > 0
        /\ LastAction(fs, n) = ADDED
        /\ fs.log[DirOf(n)][Len(fs.log[DirOf(n)])] = <<<<"+0000", clock>>, ADDED, n>>
        /\ Tombed(fs, n)

\* C4: in a dry run, the call for a Free or Tombed regular file returns
\* whether the wanted state differs from the file's flag, and changes nothing
\* in the file system: no flag, no data file or directory, no log.
C4_DryRunChangesNothing ==
    [][\A n \in Names :
          (/\ Processes(n)
           /\ run.dry_run
           /\ Free(fs, n) \/ Tombed(fs, n)) =>
              /\ Returned(run.immutable # fs.flag[n])
              /\ fs' = fs]_vars

\* C4's case: a finished dry run of entomb over "r" found the Tombed "a"
\* and the Free "c" and counted a file to change, and "c" has no data files.
C4_Witness ==
    /\ pc = "idle"
    /\ run.status = "done"
    /\ run.dry_run
    /\ run.immutable
    /\ run.path = "r"
    /\ run.attribute_changed_count > 0
    /\ run.attribute_settable_count > run.attribute_changed_count
    /\ Tombed(fs, "a")
    /\ Free(fs, "c")
    /\ fs.recs["c"] = <<>>

\* C5: when check_files comes to a regular file that was entombed by the
\* program and not changed since, it adds no error, counts the file as
\* entombed, and the text of each data file is what build_data_file_contents
\* gives for the file with the checksum time stored in that text.
C5_EntombedFileVerifies ==
    [][\A n \in Names :
          (/\ Checks(n)
           /\ IsFile(fs, n)
           /\ fs.flag[n]
           /\ LastAction(fs, n) = ADDED) =>
              /\ pc' = "check"
              /\ chk'.errors = chk.errors
              /\ chk'.entombed_file_count = chk.entombed_file_count + 1
              /\ chk'.files_with_errors_count = chk.files_with_errors_count
              /\ chk'.unentombed_file_count = chk.unentombed_file_count
              /\ \A k \in DataFiles(fs, n) :
                     fs.recs[n][k].contents =
                         build_data_file_contents(
                             fs, n, fs.recs[n][k].contents.checksum_time, clock)]_vars

\* C5's case: a finished check counted entombed files and found no error,
\* at a later time than the files were entombed.
C5_Witness ==
    /\ pc = "idle"
    /\ chk.status = "done"
    /\ chk.entombed_file_count > 0
    /\ chk.errors = <<>>
    /\ \E n \in Names :
        /\ Tombed(fs, n)
        /\ fs.recs[n][1].contents.checksum_time # <<"+0000", clock>>

\* The errors this step appended to the list of check_files.
NewErrors == SubSeq(chk'.errors, Len(chk.errors) + 1, Len(chk'.errors))

\* In this step check_files counted the file in hand as entombed, as a file
\* with errors, or as unentombed.
Counted(entombed, with_errors, unentombed) ==
    /\ pc' = "check"
    /\ chk'.entombed_file_count = chk.entombed_file_count + entombed
    /\ chk'.files_with_errors_count = chk.files_with_errors_count + with_errors
    /\ chk'.unentombed_file_count = chk.unentombed_file_count + unentombed
    /\ chk'.inaccessible_file_count = chk.inaccessible_file_count
    /\ chk'.link_count = chk.link_count

\* C6: when check_files comes to a regular file, whether the file has a data
\* subdirectory and whether it is immutable decide what happens: a data
\* subdirectory and no flag give exactly the one error "should be immutable"
\* and a flag and no data subdirectory exactly the one error "no data
\* subdirectory", the file being counted with the files with errors in both
\* cases and not as entombed or unentombed; neither gives no error and an
\* unentombed file; both give the verification of the data files, which
\* counts a file with its full group as entombed.
C6_Classification ==
    [][\A n \in Names :
          (Checks(n) /\ IsFile(fs, n)) =>
              /\ (fs.sub[n] /\ ~fs.flag[n]) =>
                     /\ NewErrors = << <<SHOULD_BE_IMMUTABLE, n>> >>
                     /\ Counted(0, 1, 0)
              /\ (~fs.sub[n] /\ fs.flag[n]) =>
                     /\ NewErrors = << <<NO_DATA_SUBDIRECTORY, n>> >>
                     /\ Counted(0, 1, 0)
              /\ (~fs.sub[n] /\ ~fs.flag[n]) =>
                     /\ NewErrors = <<>>
                     /\ Counted(0, 0, 1)
              /\ (fs.sub[n] /\ fs.flag[n]) =>
                     /\ \A i \in DOMAIN NewErrors :
                            NewErrors[i][1] \in {DATA_FILE_NOT_IMMUTABLE,
                                                 DATA_FILE_NOT_READ_ONLY,
                                                 DATA_FILE_MISMATCH}
                     /\ FullGroup(fs, n) => NewErrors = <<>> /\ Counted(1, 0, 0)
                     /\ ~FullGroup(fs, n) => pc' = "idle" \/ Counted(0, 1, 0)]_vars

\* C6's case: a finished check found a mutable file with a data subdirectory,
\* an immutable file without one and an unentombed file.
C6_Witness ==
    /\ pc = "idle"
    /\ chk.status = "done"
    /\ chk.files_with_errors_count = 2
    /\ chk.unentombed_file_count > 0
    /\ \E n, m \in Names :
        /\ fs.sub[n] /\ ~fs.flag[n]
        /\ ~fs.sub[m] /\ fs.flag[m]
        /\ chk.errors = << <<SHOULD_BE_IMMUTABLE, n>>, <<NO_DATA_SUBDIRECTORY, m>> >>

\* The data subdirectory of n holds the R data files, identical, read-only,
\* immutable and parsing, as entombing left them.
GroupAsWritten(f, n) ==
    /\ f.sub[n]
    /\ DataFiles(f, n) = 1..DATA_FILES_PER_FILE
    /\ \A k \in DataFiles(f, n) :
        /\ f.recs[n][k].mode = READ_ONLY
        /\ f.recs[n][k].immutable
        /\ f.recs[n][k].contents = f.recs[n][1].contents
        /\ f.recs[n][k].contents.json
        /\ f.recs[n][k].contents.file = n

\* C7: when check_files comes to an immutable file whose data files are all
\* there as written but whose bytes are no longer the bytes the checksum in
\* them was taken of, it reports the mismatch and counts the file with the
\* files with errors, not as entombed.
C7_ChangedBytesReported ==
    [][\A n \in Names :
          (/\ Checks(n)
           /\ IsFile(fs, n)
           /\ fs.flag[n]
           /\ GroupAsWritten(fs, n)
           /\ fs.recs[n][1].contents.checksum # <<"sha512", fs.content[n]>>) =>
              /\ NewErrors = << <<DATA_FILE_MISMATCH, "">> >>
              /\ Counted(0, 1, 0)]_vars

\* C7's case: a finished check reported the mismatch of an immutable file
\* whose bytes were changed after it was entombed.
C7_Witness ==
    /\ pc = "idle"
    /\ chk.status = "done"
    /\ chk.files_with_errors_count > 0
    /\ \E i \in DOMAIN chk.errors : chk.errors[i] = <<DATA_FILE_MISMATCH, "">>
    /\ \E n \in Names :
        /\ IsFile(fs, n)
        /\ fs.flag[n]
        /\ GroupAsWritten(fs, n)
        /\ fs.recs[n][1].contents.checksum = <<"sha512", "hello">>
        /\ fs.content[n] # "hello"

\* C8 as claimed: when check_files comes to an immutable file with its R data
\* files of which exactly one no longer holds the text of the others, it
\* goes on, counts the file with the files with errors and appends an error
\* for it that is not the mismatch of file and data file.
C8_CorruptDataFileReported ==
    [][\A n \in Names :
          (/\ Checks(n)
           /\ IsFile(fs, n)
           /\ fs.flag[n]
           /\ fs.sub[n]
           /\ DataFiles(fs, n) = 1..DATA_FILES_PER_FILE
           /\ \E k \in DataFiles(fs, n) :
                  /\ fs.recs[n][k].contents #
                         build_data_file_contents(
                             fs, n, fs.recs[n][k].contents.checksum_time, clock)
                  /\ \A j \in DataFiles(fs, n) \ {k} :
                         fs.recs[n][j].contents =
                             build_data_file_contents(
                                 fs, n, fs.recs[n][j].contents.checksum_time, clock)) =>
              /\ Counted(0, 1, 0)
              /\ NewErrors # <<>>
              /\ \A i \in DOMAIN NewErrors :
                     NewErrors[i][1] # DATA_FILE_MISMATCH]_vars

\* C9 as claimed: when check_files comes to an immutable file of whose R data
\* files some or all were deleted, the others being as written, it goes on,
\* appends an error and counts the file with the files with errors, not as
\* entombed.
C9_DeletedDataFileReported ==
    [][\A n \in Names :
          (/\ Checks(n)
           /\ IsFile(fs, n)
           /\ fs.flag[n]
           /\ fs.sub[n]
           /\ DataFiles(fs, n) # 1..DATA_FILES_PER_FILE
           /\ DataFiles(fs, n) \subseteq 1..DATA_FILES_PER_FILE
           /\ \A k \in DataFiles(fs, n) :
                  /\ fs.recs[n][k].mode = READ_ONLY
                  /\ fs.recs[n][k].immutable
                  /\ fs.recs[n][k].contents =
                         build_data_file_contents(
                             fs, n, fs.recs[n][k].contents.checksum_time, clock)) =>
              /\ Counted(0, 1, 0)
              /\ NewErrors # <<>>]_vars

\* This step is the turn of the os.walk loop of check_files that reports the
\* data subdirectories of directory d.
ChecksDirectory(d) ==
    /\ pc = "check"
    /\ chk.filenames = {}
    /\ chk.dirs # <<>>
    /\ Head(chk.dirs) = d
    /\ pc' = "check"
    /\ chk'.directory_count = chk.directory_count + 1

\* C10 as claimed: for each directory check_files walks, each data
\* subdirectory of it named after no regular file of the directory is
\* reported once as having no corresponding file, and no data subdirectory
\* named after a regular file is.
C10_OrphanReported ==
    [][\A d \in Dirs :
          ChecksDirectory(d) =>
              \A n \in Names :
                  DirOf(n) = d =>
                      Cardinality({i \in DOMAIN NewErrors :
                                      NewErrors[i] = <<NO_CORRESPONDING_FILE, n>>})
                          = IF fs.sub[n] /\ ~IsFile(fs, n) THEN 1 ELSE 0]_vars

\* The last run of process_objects was stopped within the change of n, an
\* entombing or an un-entombing, after lo to hi steps of it, and the tree is
\* as that left it.
KilledAt(n, immutable, lo, hi) ==
    /\ run.status = "killed"
    /\ run.file_path = n
    /\ run.immutable = immutable
    /\ run.steps \in lo..hi

\* C11 as claimed: when check_files comes to a file whose entombing was
\* stopped after the file was made immutable and before the last data file
\* was, it goes on, appends an error and counts the file with the files with
\* errors, not as entombed and not as unentombed.
C11_InterruptedEntombReported ==
    [][\A n \in Names :
          (Checks(n) /\ KilledAt(n, TRUE, 1, CreateDataFilesSteps)) =>
              /\ Counted(0, 1, 0)
              /\ NewErrors # <<>>]_vars

\* C12: an un-entombing stopped after the file was made mutable and before
\* its data subdirectory was removed leaves the file mutable with the data
\* subdirectory, and when check_files comes to that file it appends the one
\* error "should be immutable" and counts the file with the files with
\* errors, not as entombed and not as unentombed.
C12_InterruptedUnentombReported ==
    [][\A n \in Names :
          /\ (/\ pc = "process"
              /\ run'.status = "killed"
              /\ run'.file_path = n
              /\ ~run.immutable
              /\ run'.steps \in 1..(DeleteDataDirectorySteps(fs, n) - 2)) =>
                 /\ IsFile(fs', n)
                 /\ ~fs'.flag[n]
                 /\ fs'.sub[n]
          /\ (/\ Checks(n)
              /\ KilledAt(n, FALSE, 1, 2 * DATA_FILES_PER_FILE + 1)) =>
                 /\ NewErrors = << <<SHOULD_BE_IMMUTABLE, n>> >>
                 /\ Counted(0, 1, 0)]_vars

\* C12's case: a check that followed an un-entombing stopped between the
\* removal of the first and of the last data file has reported the file.
C12_Witness ==
    /\ pc = "check"
    /\ \E n \in Names :
        /\ KilledAt(n, FALSE, DATA_FILES_PER_FILE + 2, 2 * DATA_FILES_PER_FILE)
        /\ ~fs.flag[n]
        /\ fs.sub[n]
        /\ DataFiles(fs, n) \notin {{}, 1..DATA_FILES_PER_FILE}
        /\ \E i \in DOMAIN chk.errors :
               chk.errors[i] = <<SHOULD_BE_IMMUTABLE, n>>
        /\ chk.files_with_errors_count > 0

\* The data files 1..R of n are there and each holds the text rebuilt from
\* the file as it is, with the checksum time the text itself gives.
RecordsMatch(f, n) ==
    \A k \in 1..DATA_FILES_PER_FILE :
        /\ k \in DataFiles(f, n)
        /\ f.recs[n][k].contents =
               [json          |-> TRUE,
                file          |-> n,
                file_mtime    |-> <<"+0000", f.mtime[n]>>,
                file_size     |-> Size(f.content[n]),
                checksum      |-> <<"sha512", f.content[n]>>,
                checksum_time |-> f.recs[n][k].contents.checksum_time]

\* A regular file is in an inconsistent state: mutable with a data
\* subdirectory, or immutable with a data file missing or not matching.
Inconsistent(f, n) ==
    /\ IsFile(f, n)
    /\ IF f.flag[n] THEN ~RecordsMatch(f, n) ELSE f.sub[n]

\* C13 as claimed: when a run of process_objects comes to a file in an
\* inconsistent state, it appends one error for that file to its list of
\* errors and goes on to the next file path.
C13_InconsistentFileCollected ==
    [][\A n \in Names :
          (Processes(n) /\ Inconsistent(fs, n)) =>
              /\ pc' = "process"
              /\ Len(run'.errors) = Len(run.errors) + 1
              /\ run'.errors[Len(run'.errors)][2] = n
              /\ run'.todo = Tail(run.todo)]_vars

\* The command the fault names is run in the turn of process_objects on n.
Invoked(fault, n) ==
    \/ fault = "lsattr"
    \/ /\ ~Inconsistent(fs, n)
       /\ run.immutable # fs.flag[n]
       /\ ~run.dry_run

\* C14: when in the turn of process_objects on a regular file the lsattr on
\* the file, the chattr on the file or the chattr on one of its data files
\* exits non-zero, exactly one error for the file is appended, the file is
\* counted as a file but neither as settable nor as changed, and the run goes
\* on to the next file path.
C14_AttributeErrorCollected ==
    [][\A n \in Names : \A fault \in Faults \ {"none"} :
          (/\ Processes(n)
           /\ IsFile(fs, n)
           /\ ProcessStep(fault)
           /\ Invoked(fault, n)) =>
              /\ pc' = "process"
              /\ run'.errors = Append(run.errors, <<"SetAttributeError", n>>)
              /\ run'.attribute_changed_count = run.attribute_changed_count
              /\ run'.attribute_settable_count = run.attribute_settable_count
              /\ run'.file_count = run.file_count + 1
              /\ run'.todo = Tail(run.todo)]_vars

\* C14's case: a finished entombing of "r" in which the chattr on the second
\* data file of "a" exited non-zero collected the one error and went on to
\* entomb another file.
C14_Witness ==
    /\ pc = "idle"
    /\ run.status = "done"
    /\ run.immutable
    /\ run.errors = << <<"SetAttributeError", "a">> >>
    /\ run.attribute_changed_count > 0
    /\ run.file_count + run.link_count = run.total_file_paths
    /\ fs.flag["a"]
    /\ DataFiles(fs, "a") = {1, 2}
    /\ ~fs.recs["a"][2].immutable
    /\ Tombed(fs, "c")

\* C15 as claimed: a check of a directory, once it walks, goes on to its
\* report; no turn of its loops ends it with an exception.
C15_CheckCompletes ==
    [][pc = "check" => (pc' = "check" \/ chk'.status = "done")]_vars

\* C16: when a run of process_objects comes to a regular file in an
\* inconsistent state, whether it entombs or un-entombs and whether it is a
\* dry run or not, the call fails with an exception and the file system,
\* flags, data files, directories and logs, is left as it was.
C16_InconsistentFileUntouched ==
    [][\A n \in Names :
          (Processes(n) /\ Inconsistent(fs, n)) =>
              /\ fs' = fs
              /\ pc' = "idle"
              /\ run'.status \in {"Exception", "FileNotFoundError",
                                   "JSONDecodeError"}]_vars

\* C16's case: a dry run of un-entombing stopped at an immutable file whose
\* bytes no longer match its data files, which are as they were written.
C16_Witness ==
    /\ pc = "idle"
    /\ run.status = "Exception"
    /\ run.dry_run
    /\ ~run.immutable
    /\ \E n \in Names :
        /\ run.file_path = n
        /\ Inconsistent(fs, n)
        /\ fs.flag[n]
        /\ GroupAsWritten(fs, n)
        /\ fs.recs[n][1].contents.checksum # <<"sha512", fs.content[n]>>

LogEntries(f, n) ==
    Cardinality({i \in DOMAIN f.log[DirOf(n)] : f.log[DirOf(n)][i][3] = n})

\* C18: a step of process_objects or check_files leaves a symbolic link as
\* it is, with its flag, and makes, changes or removes no data subdirectory
\* or data file under its name, adds no log entry and no error that names
\* it; the turn of either loop on the link adds one to link_count and
\* counts nothing else.
C18_LinksOnlyCounted ==
    [][\A n \in Names :
          (fs.kind[n] = "link" /\ (pc # "idle" \/ pc' # "idle")) =>
              /\ fs'.kind[n] = "link"
              /\ fs'.flag[n] = fs.flag[n]
              /\ fs'.sub[n] = fs.sub[n]
              /\ fs'.recs[n] = fs.recs[n]
              /\ LogEntries(fs', n) = LogEntries(fs, n)
              /\ \A i \in DOMAIN run'.errors : run'.errors[i][2] # n
              /\ \A i \in DOMAIN chk'.errors : chk'.errors[i][2] # n
              /\ Processes(n) =>
                     /\ fs' = fs
                     /\ pc' = "process"
                     /\ run' = [run EXCEPT !.todo = Tail(@),
                                           !.file_path = n,
                                           !.link_count = @ + 1]
              /\ Checks(n) =>
                     /\ pc' = "check"
                     /\ chk' = [chk EXCEPT !.filenames = @ \ {n},
                                           !.file_path = n,
                                           !.link_count = @ + 1]]_vars

\* C18's case: a finished entombing of "s" and a finished check of "s" each
\* counted the link "c", which took the place of an entombed file and whose
\* name still has the data subdirectory.
C18_Witness ==
    /\ pc = "idle"
    /\ fs.kind["c"] = "link"
    /\ fs.sub["c"]
    /\ run.status = "done" /\ run.path = "s" /\ run.immutable /\ ~run.dry_run
    /\ run.link_count = 1 /\ run.file_count = 0
    /\ chk.status = "done" /\ chk.path = "s"
    /\ chk.link_count = 1 /\ chk.errors = <<>>

\* This step is a call of the function for the file n by itself.
Called(function, n) ==
    /\ pc = "idle"
    /\ clock' = clock + 1
    /\ run'.call = function
    /\ run'.at = clock'
    /\ run'.file_path = n

\* C19 as claimed: a call of _delete_data_directory for a regular file
\* returns, whether the data subdirectory of the file is there, whole or in
\* part, or not; it leaves no data subdirectory and no data file of the
\* file, and changes nothing when there was none.
C19_DeleteNeverFails ==
    [][\A n \in Names :
          Called("_delete_data_directory", n) =>
              /\ run'.status = "returned"
              /\ ~fs'.sub[n]
              /\ fs'.recs[n] = <<>>
              /\ ~fs.sub[n] => fs' = fs]_vars

\* C20: a call of _create_data_files for a regular file whose data
\* subdirectory holds a data file raises an exception and leaves the file
\* system as it was; a call for a file whose data subdirectory is not there
\* or is empty returns, having made the data files 1..R, each with the text
\* built from the file at the time of the call, read-only and immutable, and
\* having changed nothing else but the directories that hold them.
C20_CreateNeverOverwrites ==
    [][\A n \in Names :
          Called("_create_data_files", n) =>
              IF fs.sub[n] /\ DataFiles(fs, n) # {}
              THEN /\ run'.status = "Exception"
                   /\ fs' = fs
              ELSE /\ run'.status = "returned"
                   /\ fs'.sub[n]
                   /\ DataFiles(fs', n) = 1..DATA_FILES_PER_FILE
                   /\ \A k \in DataFiles(fs', n) :
                          fs'.recs[n][k] =
                              [contents |->
                                   [json          |-> TRUE,
                                    file          |-> n,
                                    file_mtime    |-> <<"+0000", fs.mtime[n]>>,
                                    file_size     |-> Size(fs.content[n]),
                                    checksum      |-> <<"sha512", fs.content[n]>>,
                                    checksum_time |-> <<"+0000", clock'>>],
                               mode |-> READ_ONLY,
                               immutable |-> TRUE]
                   /\ fs' = [fs EXCEPT !.entomb[DirOf(n)] = TRUE,
                                       !.data[DirOf(n)] = TRUE,
                                       !.sub[n] = TRUE,
                                       !.recs[n] = fs'.recs[n]]]_vars

\* C20's case: _create_data_files was called for a file whose data
\* subdirectory held one data file, left by an entombing that was stopped,
\* and raised, leaving that data file alone.
C20_Witness ==
    /\ pc = "idle"
    /\ run.call = "_create_data_files"
    /\ run.at = clock
    /\ run.status = "Exception"
    /\ \E n \in Names :
        /\ run.file_path = n
        /\ fs.sub[n]
        /\ DataFiles(fs, n) = {1}
        /\ fs.recs[n][1].contents.checksum_time # <<"+0000", clock>>

\* The regular files directly in d that are Tombed.
TombedIn(f, d) == {n \in Names : DirOf(n) = d /\ Tombed(f, n)}

\* C21 as the spec has it: when only entomb and unset runs that do not fail
\* have acted, a directory holds .entomb if and only if a regular file
\* directly in it is Tombed, and the data subdirectories of .entomb/data are
\* named exactly as the Tombed files of the directory.
C21_ShadowIffTombed ==
    \A d \in Dirs :
        /\ fs.entomb[d] <=> TombedIn(fs, d) # {}
        /\ DataSubdirectories(fs, d) = TombedIn(fs, d)

\* C21 as amended: when only entomb and unset runs that do not fail have
\* acted, every regular file is Tombed or Free, a directory holds
\* .entomb/data if and only if a regular file directly in it is Tombed, and
\* the data subdirectories are named exactly as the Tombed files of the
\* directory; .entomb itself is there if and only if a file of the directory
\* was ever entombed, and then it holds the logs directory with the log.
C21_DataDirectoryIffTombed ==
    /\ \A n \in Names : IsFile(fs, n) => Tombed(fs, n) \/ Free(fs, n)
    /\ \A d \in Dirs :
        /\ fs.data[d] <=> TombedIn(fs, d) # {}
        /\ DataSubdirectories(fs, d) = TombedIn(fs, d)
        /\ fs.data[d] => fs.entomb[d]
        /\ fs.entomb[d] <=> fs.logs[d]
        /\ fs.entomb[d] <=> fs.log[d] # <<>>
        /\ fs.entomb[d] <=>
               \E i \in DOMAIN fs.log[d] : fs.log[d][i][2] = ADDED

\* C21's case: after finished entomb and unset runs, a directory holds a
\* Tombed file next to one that was un-entombed, and another directory holds
\* .entomb with no Tombed file left in it.
C21_Witness ==
    /\ pc = "idle"
    /\ run.status = "done"
    /\ \E n, m \in Names :
        /\ DirOf(n) = DirOf(m)
        /\ Tombed(fs, n)
        /\ Free(fs, m)
        /\ LastAction(fs, m) = REMOVED
    /\ \E d \in Dirs : fs.entomb[d] /\ TombedIn(fs, d) = {}

\* C22: a turn of process_objects on a regular file, whether it ends, is
\* stopped or fails on a chattr, keeps the order of lines 424-433.  In an
\* entomb the data subdirectory and the data files are touched only with the
\* file already immutable, and the ADDED entry is appended only with the full
\* group made; in an unset they are touched only with the file already
\* mutable, and the REMOVED entry is appended only with the data
\* subdirectory gone.  Stopped after no step nothing is changed, after one
\* or more the attribute is changed, and only after the last is the entry in
\* the log.  When the chattr on the file fails nothing is changed; when the
\* chattr on the k-th data file fails in an entomb, the data files 1..k are
\* there, the k-th not immutable, and no other; when it fails in an unset,
\* no data file is removed and the k-th and later ones are as they were;
\* in both the log has no new entry.
C22_FixedOrder ==
    [][\A n \in Names :
          (Processes(n) /\ IsFile(fs, n)) =>
              LET d == DirOf(n)
                  touched == \/ fs'.sub[n] # fs.sub[n]
                             \/ fs'.recs[n] # fs.recs[n]
                             \/ fs'.data[d] # fs.data[d]
                  logged == fs'.log[d] # fs.log[d]
                  entry == <<<<"+0000", clock>>,
                             IF run.immutable THEN ADDED ELSE REMOVED, n>>
                  last == ChangeSteps(fs, n, run.immutable)
              IN /\ touched =>
                     /\ fs.flag[n] # run.immutable
                     /\ fs'.flag[n] = run.immutable
                 /\ logged =>
                     /\ fs'.flag[n] = run.immutable
                     /\ fs'.log[d] = Append(fs.log[d], entry)
                     /\ IF run.immutable THEN FullGroup(fs', n)
                        ELSE ~fs'.sub[n] /\ fs'.recs[n] = <<>>
                 /\ run'.status = "killed" =>
                     /\ run'.steps = 0 => fs' = fs
                     /\ run'.steps >= 1 => fs'.flag[n] = run.immutable
                     /\ run'.steps >= 2 => touched
                     /\ logged <=> run'.steps = last
                 /\ \A fault \in {"chattr", "chattr1", "chattr2", "chattr3"} :
                     (ProcessStep(fault) /\ Invoked(fault, n)) =>
                         LET k == FaultyDataFile(fault)
                         IN /\ ~logged
                            /\ k = 0 => fs' = fs
                            /\ k > 0 => fs'.flag[n] = run.immutable
                            /\ k > 0 /\ run.immutable =>
                                /\ DataFiles(fs', n) = 1..k
                                /\ ~fs'.recs[n][k].immutable
                                /\ \A j \in 1..(k - 1) :
                                       fs'.recs[n][j].immutable
                            /\ k > 0 /\ ~run.immutable =>
                                /\ fs'.sub[n]
                                /\ DataFiles(fs', n) = DataFiles(fs, n)
                                /\ \A j \in DataFiles(fs, n) :
                                       IF j < k
                                       THEN ~fs'.recs[n][j].immutable
                                       ELSE fs'.recs[n][j] = fs.recs[n][j]]_vars

\* C22's case: an unset of a file was stopped between the removal of its
\* data files and the entry in the log, after an entomb of another file
\* failed on the chattr of its second data file.
C22_Witness ==
    \E n, m \in Names :
        /\ KilledAt(n, FALSE, 2 * DATA_FILES_PER_FILE + 1,
                    2 * DATA_FILES_PER_FILE + 4)
        /\ ~fs.flag[n]
        /\ ~fs.sub[n]
        /\ LastAction(fs, n) = ADDED
        /\ fs.flag[m]
        /\ DataFiles(fs, m) = 1..2
        /\ ~fs.recs[m][2].immutable
        /\ LastAction(fs, m) = ""

\* The actions of the log entries that name n, in the order of the log.
LogActions(f, n) ==
    LET named == SelectSeq(f.log[DirOf(n)], LAMBDA entry : entry[3] = n)
    IN [i \in DOMAIN named |-> named[i][2]]

\* The log entries that name n alternate ADDED, REMOVED from an ADDED one,
\* and the last is ADDED exactly when n is Tombed.
LogMirrors(f, n) ==
    /\ \A i \in DOMAIN LogActions(f, n) :
           LogActions(f, n)[i] = IF i % 2 = 1 THEN ADDED ELSE REMOVED
    /\ LastAction(f, n) = ADDED <=> Tombed(f, n)

\* C23 as the spec has it, its last part: whatever transitions returned or
\* failed, for every regular file the log entries alternate ADDED, REMOVED
\* and the last entry is ADDED exactly when the file is Tombed.
C23_LogMirrorsState ==
    \A n \in Names : IsFile(fs, n) => LogMirrors(fs, n)

\* C23 as amended: a turn of process_objects on a regular file appends one
\* entry, with the time, ADDED or REMOVED and the file, when _process_object
\* returns true and the run is not a dry run, and none otherwise: in a dry
\* run, when nothing is to change and when the turn fails; the logs of other
\* directories are left alone.  A turn that does not fail on a file that is
\* Free or Tombed, with entries that alternate and end on ADDED exactly when
\* it is Tombed, leaves it so.  A turn that fails on a chattr after the
\* attribute of the file was changed leaves the file neither Free nor Tombed
\* and the log as it was.
C23_LogRecordsCompleted ==
    [][\A n \in Names :
          (Processes(n) /\ IsFile(fs, n)) =>
              LET d == DirOf(n)
                  entry == <<<<"+0000", clock>>,
                             IF run.immutable THEN ADDED ELSE REMOVED, n>>
                  Stable(f) == (Free(f, n) \/ Tombed(f, n)) /\ LogMirrors(f, n)
              IN /\ fs'.log[d] =
                        IF Returned(TRUE) /\ ~run.dry_run
                        THEN Append(fs.log[d], entry)
                        ELSE fs.log[d]
                 /\ \A e \in Dirs \ {d} : fs'.log[e] = fs.log[e]
                 /\ (Stable(fs) /\ pc' = "process" /\ run'.errors = run.errors)
                        => Stable(fs')
                 /\ \A fault \in {"chattr1", "chattr2", "chattr3"} :
                        (ProcessStep(fault) /\ Invoked(fault, n)) =>
                            /\ ~Free(fs', n)
                            /\ ~Tombed(fs', n)
                            /\ fs'.log = fs.log]_vars

\* C23's case: in a finished unset run the chattr on a data file of one file
\* failed, so that its last entry is ADDED and it is not Tombed, and another
\* file was un-entombed and has its REMOVED entry after its ADDED one.
C23_Witness ==
    /\ pc = "idle"
    /\ run.status = "done"
    /\ ~run.immutable
    /\ \E n, m \in Names :
        /\ run.errors = << <<"SetAttributeError", n>> >>
        /\ LastAction(fs, n) = ADDED
        /\ ~fs.flag[n]
        /\ fs.sub[n]
        /\ Free(fs, m)
        /\ LogActions(fs, m) = <<ADDED, REMOVED>>

\* The data files of n are as the loop of _create_data_files can leave them
\* at the given time: they are 1..j for some j, each holds the whole text
\* built for the file, a data file that is immutable is read-only, every
\* data file before the last is immutable, and so at most one is not.
CreatedInOrder(f, n, now) ==
    /\ \E j \in 0..DATA_FILES_PER_FILE : DataFiles(f, n) = 1..j
    /\ \A k \in DataFiles(f, n) :
        /\ f.recs[n][k].contents = build_data_file_contents(f, n, None, now)
        /\ f.recs[n][k].immutable => f.recs[n][k].mode = READ_ONLY
        /\ (k + 1) \in DataFiles(f, n) =>
               f.recs[n][k].immutable /\ f.recs[n][k].mode = READ_ONLY
    /\ Cardinality({k \in DataFiles(f, n) : ~f.recs[n][k].immutable}) <= 1

\* C24: wherever an entomb of a regular file without data subdirectory is
\* stopped, or fails on the chattr of a data file, the data files are left
\* in the order of the loop of _create_data_files: a data file is written,
\* then read-only, then immutable, the next is not begun before that, an
\* immutable data file is read-only and holds the whole text, and at most one
\* data file is not immutable.  Stopped after j whole data files and one or
\* two more steps, the data file j + 1 is written and writable, or read-only
\* and not immutable.
C24_DataFilesInOrder ==
    [][\A n \in Names :
          (Processes(n) /\ IsFile(fs, n) /\ run.immutable /\ ~fs.sub[n]) =>
              /\ CreatedInOrder(fs', n, clock)
              /\ \A j \in 0..(DATA_FILES_PER_FILE - 1) :
                  /\ (run'.status = "killed" /\ run'.steps = 2 + 3 * j + 1) =>
                         /\ DataFiles(fs', n) = 1..(j + 1)
                         /\ fs'.recs[n][j + 1].mode = DEFAULT_MODE
                         /\ ~fs'.recs[n][j + 1].immutable
                  /\ (run'.status = "killed" /\ run'.steps = 2 + 3 * j + 2) =>
                         /\ DataFiles(fs', n) = 1..(j + 1)
                         /\ fs'.recs[n][j + 1].mode = READ_ONLY
                         /\ ~fs'.recs[n][j + 1].immutable
                  /\ (run'.status = "killed" /\ run'.steps = 2 + 3 * j + 3) =>
                         /\ DataFiles(fs', n) = 1..(j + 1)
                         /\ fs'.recs[n][j + 1].mode = READ_ONLY
                         /\ fs'.recs[n][j + 1].immutable]_vars

\* C24's case: an entomb was stopped with the first data file immutable and
\* the second written and not yet read-only, and another entomb failed on the
\* chattr of its third data file.
C24_Witness ==
    \E n, m \in Names :
        /\ KilledAt(n, TRUE, 6, 6)
        /\ DataFiles(fs, n) = 1..2
        /\ fs.recs[n][1].immutable
        /\ fs.recs[n][2].mode = DEFAULT_MODE
        /\ DataFiles(fs, m) = 1..3
        /\ fs.recs[m][3].mode = READ_ONLY
        /\ ~fs.recs[m][3].immutable

\* The file path needs no change to be as the run wants it: a link, which is
\* skipped, a Tombed file in an entomb, a Free file in an unset.
Settled(f, n, immutable) ==
    IsLink(f, n) \/ (IF immutable THEN Tombed(f, n) ELSE Free(f, n))

\* C25: the turn of process_objects on a Tombed file in an entomb, and on a
\* Free file in an unset, dry run or not, changes nothing in the file system
\* and _process_object returns false, so that the file is counted as settable
\* and not as changed.  When a run that was no dry run has finished and
\* process_objects is called again with the same path and the same
\* attribute, the same file paths are found, each of them needs no change,
\* and from there every step of the run leaves the file system as it is and
\* attribute_changed_count at zero up to the end of the run.
C25_Idempotent ==
    [][/\ \A n \in Names :
           (/\ Processes(n)
            /\ IsFile(fs, n)
            /\ Settled(fs, n, run.immutable)) =>
               /\ fs' = fs
               /\ Returned(FALSE)
               /\ run'.todo = Tail(run.todo)
       /\ (/\ pc = "idle"
           /\ pc' = "process"
           /\ run.call = "process_objects"
           /\ run.status = "done"
           /\ ~run.dry_run
           /\ run'.path = run.path
           /\ run'.immutable = run.immutable) =>
               /\ fs' = fs
               /\ run'.total_file_paths = run.total_file_paths
               /\ run'.attribute_changed_count = 0
               /\ \A i \in DOMAIN run'.todo :
                      Settled(fs', run'.todo[i], run'.immutable)
       /\ (/\ pc = "process"
           /\ run.attribute_changed_count = 0
           /\ \A i \in DOMAIN run.todo :
                  Settled(fs, run.todo[i], run.immutable)) =>
               /\ fs' = fs
               /\ run'.attribute_changed_count = 0
               /\ run'.errors = run.errors
               /\ pc' = "process" =>
                      \A i \in DOMAIN run'.todo :
                          Settled(fs', run'.todo[i], run'.immutable)]_vars

\* C25's case: an entomb of "r" that changed files has finished, the same
\* entomb of "r" was run again and has finished with all three files counted
\* as settable and none as changed, and the files are Tombed with the one
\* ADDED entry each.
C25_Witness ==
    /\ pc = "idle"
    /\ run.status = "done"
    /\ run.path = "r"
    /\ run.immutable
    /\ ~run.dry_run
    /\ run.attribute_settable_count = 3
    /\ run.attribute_changed_count = 0
    /\ \A n \in Names : Tombed(fs, n) /\ LogActions(fs, n) = <<ADDED>>
    /\ \A n \in Names : fs.recs[n][1].contents.checksum_time = <<"+0000", 1>>
    /\ clock = 2

\* C26 as claimed: the turn of process_objects on an immutable regular file
\* whose group is not the full one (a data file missing, differing, not
\* read-only or not immutable) fails: nothing is changed and the run ends on
\* the exception of _check_data_files or collects an error for the file.
C26_CheckEnforcesGroup ==
    [][\A n \in Names :
          (/\ Processes(n)
           /\ IsFile(fs, n)
           /\ fs.flag[n]
           /\ ~FullGroup(fs, n)) =>
              /\ fs' = fs
              /\ \/ /\ pc' = "idle"
                    /\ run'.status \in
                           {"Exception", "FileNotFoundError", "JSONDecodeError"}
                 \/ /\ pc' = "process"
                    /\ run'.errors # run.errors]_vars

\* C27 as claimed: an immutable regular file with its group as it was
\* written, whose bytes give the checksum of the data files and whose
\* modification time is no longer the one in the data files, is counted as
\* entombed without error by check_files, and _check_data_files accepts it:
\* the turn of process_objects on it returns.
C27_ModificationTimeIgnored ==
    [][\A n \in Names :
          (/\ IsFile(fs, n)
           /\ fs.flag[n]
           /\ GroupAsWritten(fs, n)
           /\ fs.recs[n][1].contents.checksum = <<"sha512", fs.content[n]>>
           /\ fs.recs[n][1].contents.file_size = Size(fs.content[n])
           /\ fs.recs[n][1].contents.file_mtime # <<"+0000", fs.mtime[n]>>) =>
              /\ Checks(n) => NewErrors = <<>> /\ Counted(1, 0, 0)
              /\ Processes(n) => pc' = "process" /\ run'.errors = run.errors]_vars

\* C28 as claimed: when check_files comes to a directory whose regular files
\* were entombed and un-entombed again by runs that did not fail, so that
\* each is Free with REMOVED as its last entry, it goes on, reports nothing
\* for the directory, and counts each of these files as unentombed without
\* error.
C28_CheckAfterRoundTrip ==
    [][\A d \in Dirs :
          (/\ Filenames(fs, d) # {}
           /\ \A n \in Filenames(fs, d) :
                  IsFile(fs, n) /\ Free(fs, n) /\ LastAction(fs, n) = REMOVED) =>
              /\ (/\ pc = "check"
                  /\ chk.filenames = {}
                  /\ chk.dirs # <<>>
                  /\ Head(chk.dirs) = d) =>
                     /\ pc' = "check"
                     /\ chk'.errors = chk.errors
                     /\ chk'.directory_count = chk.directory_count + 1
              /\ \A n \in Filenames(fs, d) :
                     Checks(n) => NewErrors = <<>> /\ Counted(0, 0, 1)]_vars

\* The paths below the .entomb of some directory.
EntombPaths ==
    {OtherPaths[i] : i \in DOMAIN OtherPaths} \ Dirs

\* C29: whatever was entombed and un-entombed before, the file paths a run
\* of process_objects is to come to and comes to, the directories and the
\* filenames a run of check_files is to come to and comes to, are
\* directories, files and links of the tree and never .entomb or a path below
\* it; the file paths counted before the walk are those of the tree; and
\* every error collected names a file of the tree or none.
C29_EntombNeverWalked ==
    /\ \A i \in DOMAIN run.todo :
           run.todo[i] \in Names /\ run.todo[i] \notin EntombPaths
    /\ run.file_path \in Names \cup {""}
    /\ pc = "process" =>
           /\ run.total_file_paths =
                  IF IsDir(run.path)
                  THEN Cardinality({n \in Names :
                                       /\ fs.kind[n] # "none"
                                       /\ run.path \in {"r", DirOf(n)}})
                  ELSE 1
           /\ run.file_count + run.link_count + Len(run.todo)
                  = run.total_file_paths
    /\ \A i \in DOMAIN chk.dirs :
           chk.dirs[i] \in Dirs /\ chk.dirs[i] \notin EntombPaths
    /\ chk.filenames \subseteq Names
    /\ chk.filenames \cap EntombPaths = {}
    /\ chk.file_path \in Names \cup {""}
    /\ chk.root_dir \in Dirs

\* C29's case: an entomb of "r" is run again when "r" and "s" hold .entomb
\* with the data files of Tombed files and the log, and a check of "r" has
\* walked both directories before.
C29_Witness ==
    /\ pc = "process"
    /\ run.path = "r"
    /\ run.immutable
    /\ run.file_count = 0
    /\ Len(run.todo) = 3
    /\ \A n \in Names : Tombed(fs, n)
    /\ \A d \in Dirs : fs.entomb[d] /\ fs.data[d] /\ fs.log[d] # <<>>
    /\ chk.status = "done"
    /\ chk.directory_count = 2
    /\ chk.entombed_file_count = 3

\* C30: when a turn of process_objects un-entombs a Tombed file n, every
\* other name keeps its kind, bytes, modification time, attribute, data
\* subdirectory and data files, so that a Tombed file stays Tombed; the data
\* subdirectory of n is gone; .entomb/data of the directory of n is removed
\* if and only if no data subdirectory is left in it, .entomb is not removed
\* while it holds anything, and what the other directories hold for entomb
\* is unchanged.  When check_files then comes to that directory and to a
\* Tombed file next to an un-entombed one, it goes on, counts the file as
\* entombed and appends no error.
C30_UnentombLeavesOthers ==
    [][\A n \in Names :
          LET d == DirOf(n)
              unentombed == Free(fs, n) /\ LastAction(fs, n) = REMOVED
          IN /\ Unentombs(n) =>
                 /\ \A m \in Names \ {n} :
                     /\ fs'.kind[m] = fs.kind[m]
                     /\ fs'.content[m] = fs.content[m]
                     /\ fs'.mtime[m] = fs.mtime[m]
                     /\ fs'.flag[m] = fs.flag[m]
                     /\ fs'.sub[m] = fs.sub[m]
                     /\ fs'.recs[m] = fs.recs[m]
                     /\ Tombed(fs, m) => Tombed(fs', m)
                 /\ ~fs'.sub[n]
                 /\ fs'.recs[n] = <<>>
                 /\ fs'.data[d] <=> DataSubdirectories(fs', d) # {}
                 /\ DataSubdirectories(fs', d) = DataSubdirectories(fs, d) \ {n}
                 /\ ~fs'.entomb[d] => ~fs'.data[d] /\ ~fs'.logs[d]
                 /\ \A e \in Dirs \ {d} :
                     /\ fs'.entomb[e] = fs.entomb[e]
                     /\ fs'.data[e] = fs.data[e]
                     /\ fs'.logs[e] = fs.logs[e]
                     /\ fs'.log[e] = fs.log[e]
             /\ \A m \in Names \ {n} :
                 (unentombed /\ DirOf(m) = d /\ Tombed(fs, m)) =>
                     /\ (/\ pc = "check"
                         /\ chk.filenames = {}
                         /\ chk.dirs # <<>>
                         /\ Head(chk.dirs) = d) =>
                            /\ pc' = "check"
                            /\ chk'.errors = chk.errors
                     /\ Checks(m) => NewErrors = <<>> /\ Counted(1, 0, 0)]_vars

\* C30's case: "a" and "b" were entombed, "a" alone was un-entombed, and a
\* finished check of "r" counted "b" as entombed and "a" as unentombed and
\* found no error.
C30_Witness ==
    /\ pc = "idle"
    /\ chk.status = "done"
    /\ chk.path = "r"
    /\ chk.errors = <<>>
    /\ chk.entombed_file_count >= 1
    /\ chk.unentombed_file_count >= 1
    /\ run.path = "a"
    /\ ~run.immutable
    /\ run.attribute_changed_count = 1
    /\ Free(fs, "a")
    /\ LastAction(fs, "a") = REMOVED
    /\ Tombed(fs, "b")
    /\ fs.data["r"]

\* The file paths check_files has counted.
total_count(c) ==
    c.entombed_file_count + c.files_with_errors_count
    + c.inaccessible_file_count + c.link_count + c.unentombed_file_count

\* C31 as claimed: every turn of the loop of check_files on a file path,
\* the turn in which the lsattr on the file exits non-zero too, goes on and
\* adds one to exactly one count: link_count for a link, and for a regular
\* file one of the counts of entombed files, unentombed files, files with
\* errors and inaccessible files; a turn that counts the file as entombed or
\* unentombed appends no error.
C31_TallyPartitions ==
    [][\A n \in Names :
          Checks(n) =>
              /\ pc' = "check"
              /\ total_count(chk') = total_count(chk) + 1
              /\ chk'.entombed_file_count >= chk.entombed_file_count
              /\ chk'.files_with_errors_count >= chk.files_with_errors_count
              /\ chk'.inaccessible_file_count >= chk.inaccessible_file_count
              /\ chk'.unentombed_file_count >= chk.unentombed_file_count
              /\ chk'.link_count = chk.link_count + (IF IsLink(fs, n) THEN 1 ELSE 0)
              /\ (\/ chk'.entombed_file_count > chk.entombed_file_count
                  \/ chk'.unentombed_file_count > chk.unentombed_file_count
                  \/ chk'.link_count > chk.link_count) =>
                     chk'.errors = chk.errors]_vars

\* C32 as claimed: a run of process_objects, in which commands may exit
\* non-zero and nothing else touches the tree, comes to every file path
\* counted before the walk once and ends only after the last: at every turn
\* the file paths counted and those still to come make up the total counted
\* before the walk, and when the run ends the walk is finished, file_count +
\* link_count is that total, attribute_settable_count and the number of
\* errors make up file_count, and attribute_changed_count is at most
\* attribute_settable_count.
C32_EveryPathOnce ==
    [][/\ (pc = "process" /\ pc' = "process") =>
           /\ run'.total_file_paths = run.total_file_paths
           /\ run'.file_count + run'.link_count + Len(run'.todo)
                  = run'.total_file_paths
           /\ run'.file_count + run'.link_count
                  = run.file_count + run.link_count + 1
       /\ (pc = "process" /\ pc' = "idle") =>
           /\ run'.status = "done"
           /\ run'.todo = <<>>
           /\ run'.file_count + run'.link_count = run'.total_file_paths
           /\ run'.attribute_settable_count + Len(run'.errors)
                  = run'.file_count
           /\ run'.attribute_changed_count
                  <= run'.attribute_settable_count]_vars

====
